---- MODULE Spec2Model ----
(***************************************************************************)
(* CSV -> TXT converter: the two Streamlit scripts app.py and              *)
(* txt_to_csv.py.  Strings are sequences of one-character strings, so that *)
(* strip / re.sub / lower / splitext are computed character by character.  *)
(***************************************************************************)
EXTENDS Integers, Sequences, FiniteSets, TLC

VARIABLES
    variant,        \* which script runs: "app" (app.py) or "txt" (txt_to_csv.py)
    pc,             \* position of the script run
    read,           \* what the CSV loader did: encoding option, attempts, result
    df,             \* the parsed table
    filename_col, text_mode, text_col, prefix, suffix,   \* option widgets
    i,              \* 0-based index of the next row of df.iterrows()
    used_names,     \* app.py: set of entry names already used
    used_count,     \* txt_to_csv.py: Counter of stems (used_names there)
    entries,        \* zf.writestr calls so far, in order
    created,        \* app.py: files written
    msgs,           \* st.error / st.warning / st.success / st.info shown
    download,       \* file name of the st.download_button, "none" if not offered
    rows_reported,  \* the len(df) printed by the completion message
    san             \* sanitizer harness: input, one and two applications

conv_vars == <<filename_col, text_mode, text_col, prefix, suffix, i, used_names,
               used_count, entries, created, download, rows_reported>>

flow_vars == <<variant, pc, read, df, msgs, conv_vars>>

vars == <<flow_vars, san>>

\* ------------------------------------------------------------------ bounds
MaxRows == 3
MaxLen == 4

\* ----------------------------------------------------------------- strings
UpperAZ == <<"A","B","C","D","E","F","G","H","I","J","K","L","M",
             "N","O","P","Q","R","S","T","U","V","W","X","Y","Z">>
LowerAZ == <<"a","b","c","d","e","f","g","h","i","j","k","l","m",
             "n","o","p","q","r","s","t","u","v","w","x","y","z">>
Digits == <<"0","1","2","3","4","5","6","7","8","9">>

Range(f) == {f[k] : k \in DOMAIN f}

\* str.lower(), per character
lower_char(c) ==
    IF \E k \in 1..26 : UpperAZ[k] = c
    THEN LowerAZ[CHOOSE k \in 1..26 : UpperAZ[k] = c]
    ELSE c

lower(s) == [k \in 1..Len(s) |-> lower_char(s[k])]

\* characters matched by \s and removed by str.strip()
Whitespace == {" ", "\t", "\n", "\r", "\f"}

RECURSIVE lstrip(_)
lstrip(s) ==
    IF s # <<>> /\ Head(s) \in Whitespace THEN lstrip(Tail(s)) ELSE s

RECURSIVE rstrip(_)
rstrip(s) ==
    IF s # <<>> /\ s[Len(s)] \in Whitespace
    THEN rstrip(SubSeq(s, 1, Len(s) - 1))
    ELSE s

strip(s) == rstrip(lstrip(s))

\* re.sub(r"\s+", " ", s): every maximal run of whitespace becomes one space
RECURSIVE collapse_ws(_)
collapse_ws(s) ==
    IF s = <<>> THEN <<>>
    ELSE IF Head(s) \in Whitespace
         THEN <<" ">> \o collapse_ws(lstrip(s))
         ELSE <<Head(s)>> \o collapse_ws(Tail(s))

\* re.sub(<character class>, "_", s)
sub_underscore(s, class) ==
    [k \in 1..Len(s) |-> IF s[k] \in class THEN "_" ELSE s[k]]

\* the same substitution with the matched characters deleted
RECURSIVE sub_delete(_, _)
sub_delete(s, class) ==
    IF s = <<>> THEN <<>>
    ELSE IF Head(s) \in class
         THEN sub_delete(Tail(s), class)
         ELSE <<Head(s)>> \o sub_delete(Tail(s), class)

untitled == <<"u","n","t","i","t","l","e","d">>
dot_txt == <<".","t","x","t">>

\* app.py: the class [\\/:\*\?\"<>\|\r\n\t]
AppForbidden == {"\\", "/", ":", "*", "?", "\"", "<", ">", "|", "\r", "\n", "\t"}

app_sanitize_filename_del(name) ==
    LET a == strip(name)
        b == sub_delete(a, AppForbidden)
        c == collapse_ws(b)
    IN  IF c # <<>> THEN c ELSE untitled

app_sanitize_filename(name) ==
    LET a == strip(name)
        b == sub_underscore(a, AppForbidden)
        c == collapse_ws(b)
    IN  IF c # <<>> THEN c ELSE untitled

\* txt_to_csv.py: INVALID_FILENAME_CHARS is the complement of this class
\* (the Hangul range of the class is outside the model's alphabet)
TxtAllowed == Range(UpperAZ) \cup Range(LowerAZ) \cup Range(Digits)
              \cup {" ", "_", "-", ".", "(", ")", "[", "]"}

\* every character the model can put in a string
Alphabet == TxtAllowed \cup AppForbidden \cup Whitespace

INVALID_FILENAME_CHARS == Alphabet \ TxtAllowed

txt_sanitize_filename(name) ==
    LET a == strip(name)
        b == collapse_ws(a)
        c == sub_underscore(b, INVALID_FILENAME_CHARS)
    IN  IF c = <<>> THEN untitled ELSE c

endswith(s, t) ==
    /\ Len(s) >= Len(t)
    /\ SubSeq(s, Len(s) - Len(t) + 1, Len(s)) = t

ensure_txt_suffix(name) ==
    IF endswith(lower(name), dot_txt) THEN name ELSE name \o dot_txt

\* str(int) for a non-negative integer
RECURSIVE int_str(_)
int_str(n) ==
    IF n < 10 THEN <<Digits[n + 1]>>
    ELSE int_str(n \div 10) \o <<Digits[(n % 10) + 1]>>

\* str.rfind of one character, 1-based, 0 when absent
rfind(s, c) ==
    IF \E k \in 1..Len(s) : s[k] = c
    THEN CHOOSE k \in 1..Len(s) : s[k] = c /\ \A m \in (k+1)..Len(s) : s[m] # c
    ELSE 0

\* os.path.splitext: split at the last dot unless it lies before the last
\* separator or only dots precede it in the last component
splitext(p) ==
    LET sepIndex == rfind(p, "/")
        dotIndex == rfind(p, ".")
    IN  IF /\ dotIndex > sepIndex
           /\ \E k \in (sepIndex + 1)..(dotIndex - 1) : p[k] # "."
        THEN <<SubSeq(p, 1, dotIndex - 1), SubSeq(p, dotIndex, Len(p))>>
        ELSE <<p, <<>>>>


\* ------------------------------------------------------------------ tables
\* A cell of a DataFrame read by pd.read_csv: a str, an integer of a numeric
\* column, or NaN (an empty field of a string column).
Str(s) == [t |-> "str", s |-> s, n |-> 0]
Num(n) == [t |-> "num", s |-> <<>>, n |-> n]
NaN == [t |-> "nan", s |-> <<>>, n |-> 0]

\* str(value) as used by f"{...}" and str(...)
py_str(cell) ==
    CASE cell.t = "str" -> cell.s
      [] cell.t = "num" -> int_str(cell.n)
      [] OTHER -> <<"n","a","n">>

Filename_hdr == <<"F","i","l","e","n","a","m","e">>
title_hdr == <<"t","i","t","l","e">>
note_hdr == <<"n","o","t","e">>

hi == <<"h","i">>
blank == <<" ">>

\* rows of a table whose two columns are both string columns
RowsSS == {
    <<Str(<<"x">>), Str(hi)>>,
    <<Str(<<"x","_","2">>), Str(hi)>>,
    <<Str(<<"r",".","T","X","T">>), Str(hi)>>,
    <<Str(<<"r",".","t","x","t">>), NaN>>,
    <<Str(blank), Str(<<" ","t"," ">>)>>,
    <<NaN, Str(blank)>> }

\* first column numeric, second a string column
RowsNS == { <<Num(2), Str(hi)>>, <<Num(2), Str(blank)>> }

\* first column a string column, second numeric
RowsSN == { <<Str(<<"a","/">>), Num(2)>>, <<Str(blank), Num(2)>> }

SeqsUpTo(S, n) == UNION {[1..k -> S] : k \in 0..n}

Tables ==
    {[columns |-> <<h, note_hdr>>, rows |-> r] :
        h \in {Filename_hdr, title_hdr},
        r \in SeqsUpTo(RowsSS, MaxRows) \cup SeqsUpTo(RowsNS, MaxRows)
              \cup SeqsUpTo(RowsSN, MaxRows)}

NoTable == [columns |-> <<>>, rows |-> <<>>]

\* row[col] / row.get(col, default) for a column of the table
cell_of(columns, row, col) ==
    row[CHOOSE k \in 1..Len(columns) : columns[k] = col]

\* ------------------------------------------------------------------ loader
\* What one pd.read_csv(file, encoding=enc) call does is decided by the file
\* and the parser: it returns a table, raises UnicodeDecodeError, or raises
\* another exception (ParserError, EmptyDataError, ...).
Outcomes == {"ok", "UnicodeDecodeError", "Exception"}

AppCandidates == <<"utf-8", "latin1">>
TxtCandidates == <<"utf-8", "cp949", "euc-kr", "latin1">>
AutoChoice == "auto"
EncodingChoices == {AutoChoice} \cup Range(TxtCandidates)

\* latin1 maps every byte to a character: it cannot fail to decode
OutcomeVectors ==
    {o \in [Range(TxtCandidates) -> Outcomes] : o["latin1"] # "UnicodeDecodeError"}

Attempt(enc, o) == [enc |-> enc, outcome |-> o[enc]]

NotRead == [choice |-> "none", tried |-> <<>>, ok |-> FALSE, enc |-> "none"]

\* app.py read_csv_safely: latin1 is attempted only from the
\* `except UnicodeDecodeError` handler; any other exception returns None
app_read_csv_safely(o) ==
    IF o["utf-8"] = "ok"
    THEN [choice |-> "none", tried |-> <<Attempt("utf-8", o)>>,
          ok |-> TRUE, enc |-> "utf-8"]
    ELSE IF o["utf-8"] = "UnicodeDecodeError"
    THEN [choice |-> "none",
          tried |-> <<Attempt("utf-8", o), Attempt("latin1", o)>>,
          ok |-> o["latin1"] = "ok",
          enc |-> IF o["latin1"] = "ok" THEN "latin1" ELSE "none"]
    ELSE [choice |-> "none", tried |-> <<Attempt("utf-8", o)>>,
          ok |-> FALSE, enc |-> "none"]

\* the auto loop of safe_read_csv from candidate k on
RECURSIVE auto_loop(_, _, _)
auto_loop(o, k, done) ==
    IF k > Len(TxtCandidates)
    THEN [choice |-> AutoChoice, tried |-> done, ok |-> FALSE, enc |-> "none"]
    ELSE LET enc == TxtCandidates[k]
             now == Append(done, Attempt(enc, o))
         IN  IF o[enc] = "ok"
             THEN [choice |-> AutoChoice, tried |-> now, ok |-> TRUE, enc |-> enc]
             ELSE auto_loop(o, k + 1, now)

\* txt_to_csv.py safe_read_csv
safe_read_csv(encoding_choice, o) ==
    IF encoding_choice = AutoChoice
    THEN auto_loop(o, 1, <<>>)
    ELSE [choice |-> encoding_choice,
          tried |-> <<Attempt(encoding_choice, o)>>,
          ok |-> o[encoding_choice] = "ok",
          enc |-> IF o[encoding_choice] = "ok" THEN encoding_choice ELSE "none"]

\* ---------------------------------------------------------- text selection
Absent == [some |-> FALSE, s |-> <<>>]
Some(s) == [some |-> TRUE, s |-> s]

is_text(cell) == cell.t = "str" /\ strip(cell.s) # <<>>

\* a scan that accepts any str cell, blank or not
RECURSIVE first_string_cell_any(_)
first_string_cell_any(row) ==
    IF row = <<>> THEN Absent
    ELSE IF Head(row).t = "str" THEN Some(Head(row).s)
    ELSE first_string_cell_any(Tail(row))

\* app.py first_string_cell: the value is returned as it is
RECURSIVE first_string_cell(_)
first_string_cell(row) ==
    IF row = <<>> THEN Absent
    ELSE IF is_text(Head(row)) THEN Some(Head(row).s)
    ELSE first_string_cell(Tail(row))

\* a scan that stringifies the cells it meets
RECURSIVE first_nonempty_str_coerce(_)
first_nonempty_str_coerce(row) ==
    IF row = <<>> THEN Absent
    ELSE IF Head(row).t # "nan" /\ strip(py_str(Head(row))) # <<>>
         THEN Some(strip(py_str(Head(row))))
         ELSE first_nonempty_str_coerce(Tail(row))

\* txt_to_csv.py first_nonempty_str: the value is returned stripped
RECURSIVE first_nonempty_str(_)
first_nonempty_str(row) ==
    IF row = <<>> THEN Absent
    ELSE IF is_text(Head(row)) THEN Some(strip(Head(row).s))
    ELSE first_nonempty_str(Tail(row))

FirstMode == "first"
ColumnMode == "column"

\* txt_to_csv.py lines 149-156: the text of a row under the chosen mode
txt_text_value(columns, row, mode, col) ==
    IF mode = ColumnMode
    THEN LET val == cell_of(columns, row, col)
         IN  IF is_text(val) THEN Some(val.s) ELSE Absent
    ELSE first_nonempty_str(row)

\* ------------------------------------------------------------- file names
row_name(idx) == <<"r","o","w","_">> \o int_str(idx + 1)

\* app.py lines 69-73: the first column called "filename" in any letter case
app_filename_col(columns) ==
    IF \E k \in 1..Len(columns) : lower(columns[k]) = lower(Filename_hdr)
    THEN columns[CHOOSE k \in 1..Len(columns) :
                    /\ lower(columns[k]) = lower(Filename_hdr)
                    /\ \A m \in 1..(k-1) : lower(columns[m]) # lower(Filename_hdr)]
    ELSE <<>>

\* app.py lines 86-91: ".txt" is appended first, the whole name sanitized after
app_file_name(columns, row, idx, fcol) ==
    LET raw_name == IF fcol # <<>>
                    THEN py_str(cell_of(columns, row, fcol)) \o dot_txt
                    ELSE row_name(idx) \o dot_txt
    IN  app_sanitize_filename(raw_name)

\* "(없음)", the first option of the file-name column selectbox
NoColumn == <<"(","-",")">>

\* txt_to_csv.py line 123: the columns offered for the file name
candidate_filename_cols(columns) ==
    LET named == {c \in Range(columns) : lower(c) = lower(Filename_hdr)}
    IN  IF named # {} THEN named ELSE Range(columns)

\* txt_to_csv.py lines 159-166: only the cell is sanitized; prefix and suffix
\* are concatenated after it
txt_fname(columns, row, idx, fcol, pre, suf) ==
    LET base == IF fcol # NoColumn
                THEN LET raw_name == strip(py_str(cell_of(columns, row, fcol)))
                         clean == txt_sanitize_filename(raw_name)
                     IN  IF clean # <<>> THEN clean ELSE row_name(idx)
                ELSE row_name(idx)
    IN  ensure_txt_suffix(pre \o base \o suf)

\* ------------------------------------------------------------- uniqueness
Suffixed(name, k) ==
    LET parts == splitext(name) IN parts[1] \o <<"_">> \o int_str(k) \o parts[2]

\* the counter of ensure_unique: the first k >= from with an unused candidate
RECURSIVE probe(_, _, _)
probe(name, used, k) ==
    IF Suffixed(name, k) \notin used THEN Suffixed(name, k)
    ELSE probe(name, used, k + 1)

\* ensure_unique without the `if name not in used` shortcut
ensure_unique_always_probe(name, used) == probe(name, used, 2)

\* app.py ensure_unique: the name returned (it is also added to `used`)
ensure_unique(name, used) ==
    IF name \notin used THEN name ELSE probe(name, used, 2)

\* Counter lookup: a missing key counts 0
count_of(counter, key) ==
    IF key \in DOMAIN counter THEN counter[key] ELSE 0

\* used_names[base] += 1
count_incr(counter, key) ==
    [k \in DOMAIN counter \cup {key} |->
        IF k = key THEN count_of(counter, key) + 1 ELSE counter[k]]

\* txt_to_csv.py lines 169-172: the name written, after the increment
txt_dedup(fname, counter) ==
    LET base == splitext(fname)[1]
        n == count_of(counter, base) + 1
    IN  IF n > 1 THEN Suffixed(fname, n) ELSE fname

\* ------------------------------------------------------------ script runs
\* prefix / suffix text inputs tried by the model
PrefixSuffix == { <<<<>>, <<>>>>, <<<<"p","/">>, <<>>>>, <<<<>>, <<"_","v">>>> }

SanIdle == [step |-> "idle", input |-> <<>>, once |-> <<>>, twice |-> <<>>]

Init ==
    /\ variant \in {"app", "txt"}
    /\ pc = "upload"
    /\ read = NotRead
    /\ df = NoTable
    /\ filename_col = <<>>
    /\ text_mode = "none"
    /\ text_col = <<>>
    /\ prefix = <<>>
    /\ suffix = <<>>
    /\ i = 0
    /\ used_names = {}
    /\ used_count = <<>>
    /\ entries = <<>>
    /\ created = 0
    /\ msgs = {}
    /\ download = "none"
    /\ rows_reported = 0
    /\ san = SanIdle

\* app.py line 62: df = read_csv_safely(uploaded); st.error on failure
app_read ==
    /\ variant = "app" /\ pc = "upload"
    /\ \E o \in OutcomeVectors :
         /\ read' = app_read_csv_safely(o)
         /\ msgs' = IF read'.ok THEN msgs ELSE msgs \cup {"read_error"}
    /\ pc' = "returned"
    /\ UNCHANGED <<variant, df, san>> /\ UNCHANGED conv_vars

\* app.py lines 64-73: df is not None; the loader's locals are gone
app_loaded ==
    /\ variant = "app" /\ pc = "returned" /\ read.ok
    /\ \E t \in Tables :
         /\ df' = t
         /\ filename_col' = app_filename_col(t.columns)
    /\ msgs' = msgs \cup {"loaded"}
    /\ read' = NotRead
    /\ pc' = "ready"
    /\ UNCHANGED <<variant, san, text_mode, text_col, prefix, suffix, i,
                   used_names, used_count, entries, created, download,
                   rows_reported>>

\* app.py line 64: df is None, nothing more is shown
app_not_loaded ==
    /\ variant = "app" /\ pc = "returned" /\ ~read.ok
    /\ pc' = "stopped"
    /\ UNCHANGED <<variant, read, df, msgs, san>> /\ UNCHANGED conv_vars

\* app.py lines 75-79: the button is pressed
app_run ==
    /\ variant = "app" /\ pc = "ready"
    /\ used_names' = {}
    /\ created' = 0
    /\ entries' = <<>>
    /\ i' = 0
    /\ pc' = "loop"
    /\ UNCHANGED <<variant, read, df, msgs, san, filename_col, text_mode,
                   text_col, prefix, suffix, used_count, download,
                   rows_reported>>

\* app.py lines 81-95: one iteration of the loop over df.iterrows()
app_row ==
    /\ variant = "app" /\ pc = "loop" /\ i < Len(df.rows)
    /\ LET row == df.rows[i + 1]
           text_value == first_string_cell(row)
           orig == app_file_name(df.columns, row, i, filename_col)
           file_name == ensure_unique(orig, used_names)
       IN  IF ~text_value.some
           THEN UNCHANGED <<used_names, entries, created>>
           ELSE /\ used_names' = used_names \cup {file_name}
                /\ entries' = Append(entries, [name |-> file_name,
                                               text |-> text_value.s,
                                               row |-> i, orig |-> orig])
                /\ created' = created + 1
    /\ i' = i + 1
    /\ UNCHANGED <<variant, pc, read, df, msgs, san, filename_col, text_mode,
                   text_col, prefix, suffix, used_count, download,
                   rows_reported>>

\* app.py lines 97-108: completion message, download button, created == 0 note
app_finish ==
    /\ variant = "app" /\ pc = "loop" /\ i = Len(df.rows)
    /\ rows_reported' = Len(df.rows)
    /\ msgs' = msgs \cup {"done"}
                    \cup (IF created = 0 THEN {"no_text"} ELSE {})
    /\ download' = "converted_texts.zip"
    /\ pc' = "done"
    /\ UNCHANGED <<variant, read, df, san, filename_col, text_mode, text_col,
                   prefix, suffix, i, used_names, used_count, entries, created>>

\* txt_to_csv.py lines 81-91, 107: the encoding option and the loader call
txt_read ==
    /\ variant = "txt" /\ pc = "upload"
    /\ \E choice \in EncodingChoices, o \in OutcomeVectors :
         read' = safe_read_csv(choice, o)
    /\ pc' = "returned"
    /\ UNCHANGED <<variant, df, msgs, san>> /\ UNCHANGED conv_vars

\* txt_to_csv.py lines 108-110: st.error and st.stop
txt_not_loaded ==
    /\ variant = "txt" /\ pc = "returned" /\ ~read.ok
    /\ msgs' = msgs \cup {"read_error"}
    /\ pc' = "stopped"
    /\ UNCHANGED <<variant, read, df, san>> /\ UNCHANGED conv_vars

\* txt_to_csv.py lines 107, 112-117: the table, and the df.empty stop
txt_loaded ==
    /\ variant = "txt" /\ pc = "returned" /\ read.ok
    /\ \E t \in Tables :
         /\ df' = t
         /\ IF t.rows = <<>>
            THEN msgs' = msgs \cup {"empty_warning"} /\ pc' = "stopped"
            ELSE msgs' = msgs \cup {"preview"} /\ pc' = "ready"
    /\ read' = NotRead
    /\ UNCHANGED <<variant, san>> /\ UNCHANGED conv_vars

\* txt_to_csv.py lines 93-99, 122-145: the options chosen, the button pressed
txt_run ==
    /\ variant = "txt" /\ pc = "ready"
    /\ \E fc \in {NoColumn} \cup candidate_filename_cols(df.columns),
          mode \in {FirstMode, ColumnMode},
          ps \in PrefixSuffix :
         /\ filename_col' = fc
         /\ text_mode' = mode
         /\ prefix' = ps[1]
         /\ suffix' = ps[2]
         /\ IF mode = ColumnMode
            THEN text_col' \in Range(df.columns)
            ELSE text_col' = <<>>
    /\ used_count' = <<>>
    /\ entries' = <<>>
    /\ i' = 0
    /\ pc' = "loop"
    /\ UNCHANGED <<variant, read, df, msgs, san, used_names, created, download,
                   rows_reported>>

\* txt_to_csv.py lines 147-174: one iteration of the loop over df.iterrows()
txt_row ==
    /\ variant = "txt" /\ pc = "loop" /\ i < Len(df.rows)
    /\ LET row == df.rows[i + 1]
           text_value == txt_text_value(df.columns, row, text_mode, text_col)
           orig == txt_fname(df.columns, row, i, filename_col, prefix, suffix)
           base == splitext(orig)[1]
           fname == txt_dedup(orig, used_count)
       IN  IF ~text_value.some
           THEN UNCHANGED <<used_count, entries>>
           ELSE /\ used_count' = count_incr(used_count, base)
                /\ entries' = Append(entries, [name |-> fname,
                                               text |-> text_value.s,
                                               row |-> i, orig |-> orig])
    /\ i' = i + 1
    /\ UNCHANGED <<variant, pc, read, df, msgs, san, filename_col, text_mode,
                   text_col, prefix, suffix, used_names, created, download,
                   rows_reported>>

\* txt_to_csv.py lines 176-184: completion message and download button
txt_finish ==
    /\ variant = "txt" /\ pc = "loop" /\ i = Len(df.rows)
    /\ rows_reported' = Len(df.rows)
    /\ msgs' = msgs \cup {"done"}
    /\ download' = "texts_from_csv.zip"
    /\ pc' = "done"
    /\ UNCHANGED <<variant, read, df, san, filename_col, text_mode, text_col,
                   prefix, suffix, i, used_names, used_count, entries, created>>

Next ==
    \/ app_read \/ app_loaded \/ app_not_loaded
    \/ app_run \/ app_row \/ app_finish
    \/ txt_read \/ txt_loaded \/ txt_not_loaded
    \/ txt_run \/ txt_row \/ txt_finish

Spec == Init /\ [][Next]_vars

\* ------------------------------------------------------ sanitizer harness
SanChars == {"a", " ", "\t", "\n", "/", "_"}

sanitize_filename(v, name) ==
    IF v = "app" THEN app_sanitize_filename(name) ELSE txt_sanitize_filename(name)

SanInit ==
    /\ variant \in {"app", "txt"}
    /\ san \in {[step |-> "input", input |-> s, once |-> <<>>, twice |-> <<>>] :
                 s \in SeqsUpTo(SanChars, MaxLen)}
    /\ pc = "upload"
    /\ read = NotRead
    /\ df = NoTable
    /\ filename_col = <<>>
    /\ text_mode = "none"
    /\ text_col = <<>>
    /\ prefix = <<>>
    /\ suffix = <<>>
    /\ i = 0
    /\ used_names = {}
    /\ used_count = <<>>
    /\ entries = <<>>
    /\ created = 0
    /\ msgs = {}
    /\ download = "none"
    /\ rows_reported = 0

san_once ==
    /\ san.step = "input"
    /\ san' = [san EXCEPT !.step = "once",
                          !.once = sanitize_filename(variant, san.input)]
    /\ UNCHANGED flow_vars

san_twice ==
    /\ san.step = "once"
    /\ san' = [san EXCEPT !.step = "twice",
                          !.twice = sanitize_filename(variant, san.once)]
    /\ UNCHANGED flow_vars

SanNext == san_once \/ san_twice

SpecSanitize == SanInit /\ [][SanNext]_vars

\* ------------------------------------------------------------------ claims
Earlier(b) == 1..(b - 1)

RowOf(e) == df.rows[e.row + 1]

FilenameColumnUsed ==
    IF variant = "app" THEN filename_col # <<>> ELSE filename_col # NoColumn

\* a str cell holding at least one non-whitespace character
GoodCell(c) == c.t = "str" /\ \E j \in 1..Len(c.s) : c.s[j] \notin Whitespace

\* t is s without its leading and trailing whitespace
TrimOf(t, s) ==
    \E a \in 1..Len(s), b \in 1..Len(s) :
        /\ a <= b /\ t = SubSeq(s, a, b)
        /\ s[a] \notin Whitespace /\ s[b] \notin Whitespace
        /\ \A k \in 1..Len(s) : (k < a \/ k > b) => s[k] \in Whitespace

\* the row has no text under the mode of the run
TextAbsent(row) ==
    IF variant = "txt" /\ text_mode = ColumnMode
    THEN \A k \in 1..Len(row) : df.columns[k] = text_col => ~GoodCell(row[k])
    ELSE \A k \in 1..Len(row) : ~GoodCell(row[k])

\* C1: no two entries written to the archive in one run have the same
\* file name, in either script.
C1_UniqueNames ==
    \A a \in 1..Len(entries), b \in 1..Len(entries) :
        a # b => entries[a].name # entries[b].name

\* C2 (as claimed): rows are written in input order, the first row whose
\* resolved name is N is written under exactly N, and only later rows
\* resolving to N get a _k suffix.
C2_FirstOccurrenceKeepsName ==
    \A b \in 1..Len(entries) :
        /\ \A a \in Earlier(b) : entries[a].row < entries[b].row
        /\ (\A a \in Earlier(b) : entries[a].orig # entries[b].orig)
               => entries[b].name = entries[b].orig
        /\ (\E a \in Earlier(b) : entries[a].orig = entries[b].orig)
               => \E k \in 2..(Len(entries) + 1) :
                      entries[b].name = Suffixed(entries[b].orig, k)

\* C2 (amended): rows are written in input order; in app.py a row keeps its
\* resolved name N whenever no earlier entry of the run is already called N;
\* in txt_to_csv.py a row keeps N whenever no earlier written row resolved to
\* a name with the same stem; every later row resolving to the same N is
\* written under N with a _k suffix.
C2_FirstOccurrenceUnlessTaken ==
    \A b \in 1..Len(entries) :
        /\ \A a \in Earlier(b) : entries[a].row < entries[b].row
        /\ (variant = "app" /\ \A a \in Earlier(b) :
                                  entries[a].name # entries[b].orig)
               => entries[b].name = entries[b].orig
        /\ (variant = "txt" /\ \A a \in Earlier(b) :
                splitext(entries[a].orig)[1] # splitext(entries[b].orig)[1])
               => entries[b].name = entries[b].orig
        /\ (\E a \in Earlier(b) : entries[a].orig = entries[b].orig)
               => \E k \in 2..(Len(entries) + 1) :
                      entries[b].name = Suffixed(entries[b].orig, k)

\* a first occurrence of a resolved name that was renamed all the same
C2_Witness ==
    \E b \in 1..Len(entries) :
        /\ \A a \in Earlier(b) : entries[a].orig # entries[b].orig
        /\ entries[b].name # entries[b].orig

\* C3: when a run finishes, the row count reported is the table's row count,
\* no entry belongs to a row without text, and the number of entries (and
\* app.py's `created`) is the row count minus the rows without text.
C3_SkipAccounting ==
    pc = "done" =>
        /\ rows_reported = Len(df.rows)
        /\ \A k \in 1..Len(entries) : ~TextAbsent(RowOf(entries[k]))
        /\ Len(entries) = Len(df.rows)
               - Cardinality({r \in 1..Len(df.rows) : TextAbsent(df.rows[r])})
        /\ variant = "app" => created = Len(entries)

\* a finished run that skipped some rows and wrote others
C3_Witness ==
    /\ pc = "done"
    /\ entries # <<>>
    /\ \E r \in 1..Len(df.rows) : TextAbsent(df.rows[r])

\* C4: every entry name ends with exactly one .txt suffix in any letter
\* case; a value that already ends in .txt gets no second one.
C4_OneTxtSuffix ==
    \A k \in 1..Len(entries) :
        LET name == lower(entries[k].name)
        IN  /\ endswith(name, dot_txt)
            /\ ~endswith(SubSeq(name, 1, Len(name) - Len(dot_txt)), dot_txt)

\* C5: every entry name is non-empty and holds no path separator, no
\* reserved character and no CR, LF or TAB, prefix and suffix included.
C5_SafeNames ==
    \A k \in 1..Len(entries) :
        /\ entries[k].name # <<>>
        /\ \A j \in 1..Len(entries[k].name) :
               entries[k].name[j] \notin AppForbidden

\* C6: a table with zero rows ends the run with the empty-table warning and
\* without a download, in either script.
C6_EmptyTableNoArchive ==
    (pc \in {"stopped", "done"} /\ df # NoTable /\ df.rows = <<>>)
        => ("empty_warning" \in msgs /\ download = "none")

\* C7: the loader tries its candidates in the listed order, uses the first
\* that succeeds, and fails only when every candidate was tried and failed;
\* a failed load ends the run without an archive.
C7_LoaderTriesAll ==
    LET cands == IF variant = "app" THEN AppCandidates ELSE TxtCandidates
        auto == variant = "app" \/ read.choice = AutoChoice
        n == Len(read.tried)
    IN  /\ (pc = "returned" /\ auto) =>
              /\ n \in 1..Len(cands)
              /\ \A k \in 1..n : read.tried[k].enc = cands[k]
              /\ \A k \in 1..(n - 1) : read.tried[k].outcome # "ok"
              /\ read.ok => (read.tried[n].outcome = "ok"
                             /\ read.enc = cands[n])
              /\ ~read.ok => (n = Len(cands) /\ read.tried[n].outcome # "ok")
        /\ (pc = "stopped" /\ df = NoTable) => (download = "none" /\ entries = <<>>)

\* C8: sanitizing a sanitized name changes nothing.
C8_SanitizeIdempotent ==
    san.step = "twice" => san.twice = san.once

\* a name the sanitizer really changed, sanitized again
C8_Witness ==
    /\ san.step = "twice"
    /\ san.once # san.input
    /\ san.once # untitled
    /\ \E k \in 1..Len(san.input) : san.input[k] \in AppForbidden

\* C9: with a file-name column in use, a row whose file-name value is empty
\* after trimming is written as untitled.txt (between prefix and suffix),
\* before collision renaming, and never as just ".txt".
C9_UntitledFallback ==
    \A k \in 1..Len(entries) :
        LET cell == cell_of(df.columns, RowOf(entries[k]), filename_col)
        IN  (FilenameColumnUsed /\ \A j \in 1..Len(py_str(cell)) :
                                       py_str(cell)[j] \in Whitespace)
                => /\ entries[k].orig = prefix \o untitled \o suffix \o dot_txt
                   /\ entries[k].name # dot_txt

\* C10: in first-string mode the text of a row is taken from its first str
\* cell with a non-whitespace character (as it is in app.py, trimmed in
\* txt_to_csv.py) and the row is skipped when there is none; in named-column
\* mode the text is the chosen column's value when that is such a str cell,
\* and the row is skipped otherwise (a number is not stringified).
C10_TextSelection ==
    pc \in {"loop", "done"} =>
    \A r \in 1..i :
        LET row == df.rows[r]
            mine == {k \in 1..Len(entries) : entries[k].row = r - 1}
        IN  IF TextAbsent(row)
            THEN mine = {}
            ELSE /\ Cardinality(mine) = 1
                 /\ \A k \in mine :
                      IF variant = "txt" /\ text_mode = ColumnMode
                      THEN entries[k].text = cell_of(df.columns, row, text_col).s
                      ELSE \E c \in 1..Len(row) :
                             /\ GoodCell(row[c])
                             /\ \A m \in 1..(c - 1) : ~GoodCell(row[m])
                             /\ IF variant = "app"
                                THEN entries[k].text = row[c].s
                                ELSE TrimOf(entries[k].text, row[c].s)

\* a number was passed over and the str cell after it selected
C10_Witness ==
    /\ pc = "done"
    /\ \E k \in 1..Len(entries) :
         /\ RowOf(entries[k])[1].t = "num"
         /\ entries[k].text = hi

====
